---- MODULE Spec2Model ----
(***************************************************************************)
(* Model of json_validator/validator.py (DataLakeValidator) and of the      *)
(* command line in json_validator/__main__.py (main).                      *)
(*                                                                         *)
(* A Python str is a sequence of one-character strings; a pathlib.Path is  *)
(* the sequence of its segments (every path here is absolute, so the       *)
(* leading "/" part is left implicit).  Optional[str] is None or Some(s).  *)
(***************************************************************************)
EXTENDS Integers, Sequences, FiniteSets, TLC

VARIABLES
    tree,        \* the data lake on disk: file entries in os.walk order
    schemas,     \* self.schemas: schema name -> schema definition
    pc,          \* position of the caller: "idle", or inside validate_all
    json_files,  \* validate_all's local json_files
    results,     \* validate_all's local results
    ret,         \* what the last completed call returned or raised
    arg,         \* input handed to a function under test, or main's arguments
    out          \* what that function returned, or the state of the process

vars == <<tree, schemas, pc, json_files, results, ret, arg, out>>

\* ------------------------------------------------------------------ bounds

\* longest generated word handed to _pluralize_to_singular
MaxWordLen == 4

\* most directories between the base and a generated file handed to the resolver
MaxDepth == 3

\* most files in a generated data lake tree
MaxFiles == 3

\* ----------------------------------------------------------------- strings

None == [isNone |-> TRUE]

Some(v) == [isNone |-> FALSE, value |-> v]

\* str.endswith(suffix)
EndsWith(w, suffix) ==
    /\ Len(w) >= Len(suffix)
    /\ SubSeq(w, Len(w) - Len(suffix) + 1, Len(w)) = suffix

\* the slice w[:-n]
DropLast(w, n) == SubSeq(w, 1, Len(w) - n)

\* str.lower(), on the letters the generated file names use
LowerChar(c) ==
    CASE c = "J" -> "j"
      [] c = "S" -> "s"
      [] c = "O" -> "o"
      [] c = "N" -> "n"
      [] OTHER -> c

Lower(w) == [i \in 1..Len(w) |-> LowerChar(w[i])]

W_candidates == <<"c","a","n","d","i","d","a","t","e","s">>
W_candidate == <<"c","a","n","d","i","d","a","t","e">>
W_courses == <<"c","o","u","r","s","e","s">>
W_course == <<"c","o","u","r","s","e">>
W_academicWeeks == <<"a","c","a","d","e","m","i","c","W","e","e","k","s">>
W_academicWeek == <<"a","c","a","d","e","m","i","c","W","e","e","k">>
W_students == <<"s","t","u","d","e","n","t","s">>
W_student == <<"s","t","u","d","e","n","t">>
W_addresses == <<"a","d","d","r","e","s","s","e","s">>
W_address == <<"a","d","d","r","e","s","s">>
W_categories == <<"c","a","t","e","g","o","r","i","e","s">>
W_edfi == <<"e","d","-","f","i">>
W_edFi == <<"e","d","F","i">>
W_tpdm == <<"t","p","d","m">>
W_unknown == <<"u","n","k","n","o","w","n">>
W_dotjson == <<".","j","s","o","n">>

\* ------------------------------------------------- _pluralize_to_singular

\* _pluralize_to_singular with the 'eses' test of the 'ses' rule left out
PluralizeWithoutEses(plural_word) ==
    IF plural_word = W_candidates THEN W_candidate
    ELSE IF plural_word = W_courses THEN W_course
    ELSE IF plural_word = W_academicWeeks THEN W_academicWeek
    ELSE IF plural_word = W_students THEN W_student
    ELSE IF EndsWith(plural_word, <<"i","e","s">>)
    THEN DropLast(plural_word, 3) \o <<"y">>
    ELSE IF \/ EndsWith(plural_word, <<"c","h","e","s">>)
            \/ EndsWith(plural_word, <<"s","h","e","s">>)
            \/ EndsWith(plural_word, <<"x","e","s">>)
    THEN DropLast(plural_word, 2)
    ELSE IF EndsWith(plural_word, <<"s">>) /\ ~EndsWith(plural_word, <<"s","s">>)
    THEN DropLast(plural_word, 1)
    ELSE plural_word
\* _pluralize_to_singular with one more specific name, "addresses", whose
\* entry differs from what the general rules make of it
PluralizeWithAddressOverride(plural_word) ==
    IF plural_word = W_candidates THEN W_candidate
    ELSE IF plural_word = W_courses THEN W_course
    ELSE IF plural_word = W_academicWeeks THEN W_academicWeek
    ELSE IF plural_word = W_students THEN W_student
    ELSE IF plural_word = W_addresses THEN W_address
    ELSE IF EndsWith(plural_word, <<"i","e","s">>)
    THEN DropLast(plural_word, 3) \o <<"y">>
    ELSE IF \/ EndsWith(plural_word, <<"c","h","e","s">>)
            \/ EndsWith(plural_word, <<"s","h","e","s">>)
            \/ EndsWith(plural_word, <<"x","e","s">>)
    THEN DropLast(plural_word, 2)
    ELSE IF EndsWith(plural_word, <<"s","e","s">>)
    THEN IF EndsWith(plural_word, <<"e","s","e","s">>)
         THEN DropLast(plural_word, 2)
         ELSE DropLast(plural_word, 1)
    ELSE IF EndsWith(plural_word, <<"s">>) /\ ~EndsWith(plural_word, <<"s","s">>)
    THEN DropLast(plural_word, 1)
    ELSE plural_word

\* the general pluralization rules of _pluralize_to_singular on their own:
\* the if/elif chain that follows the specific Ed-Fi names
GeneralRules(plural_word) ==
    IF EndsWith(plural_word, <<"i","e","s">>)
    THEN DropLast(plural_word, 3) \o <<"y">>
    ELSE IF \/ EndsWith(plural_word, <<"c","h","e","s">>)
            \/ EndsWith(plural_word, <<"s","h","e","s">>)
            \/ EndsWith(plural_word, <<"x","e","s">>)
    THEN DropLast(plural_word, 2)
    ELSE IF EndsWith(plural_word, <<"s","e","s">>)
    THEN IF EndsWith(plural_word, <<"e","s","e","s">>)
         THEN DropLast(plural_word, 2)
         ELSE DropLast(plural_word, 1)
    ELSE IF EndsWith(plural_word, <<"s">>) /\ ~EndsWith(plural_word, <<"s","s">>)
    THEN DropLast(plural_word, 1)
    ELSE plural_word

PluralizeToSingular(plural_word) ==
    IF plural_word = W_candidates THEN W_candidate
    ELSE IF plural_word = W_courses THEN W_course
    ELSE IF plural_word = W_academicWeeks THEN W_academicWeek
    ELSE IF plural_word = W_students THEN W_student
    ELSE IF EndsWith(plural_word, <<"i","e","s">>)
    THEN DropLast(plural_word, 3) \o <<"y">>
    ELSE IF \/ EndsWith(plural_word, <<"c","h","e","s">>)
            \/ EndsWith(plural_word, <<"s","h","e","s">>)
            \/ EndsWith(plural_word, <<"x","e","s">>)
    THEN DropLast(plural_word, 2)
    ELSE IF EndsWith(plural_word, <<"s","e","s">>)
    THEN IF EndsWith(plural_word, <<"e","s","e","s">>)
         THEN DropLast(plural_word, 2)
         ELSE DropLast(plural_word, 1)
    ELSE IF EndsWith(plural_word, <<"s">>) /\ ~EndsWith(plural_word, <<"s","s">>)
    THEN DropLast(plural_word, 1)
    ELSE plural_word

\* ------------------------------------------------------------------ paths

\* self.data_lake_root
data_lake_root == << <<"l","a","k","e">> >>

\* a directory that is not the data lake root
OtherBase == << <<"t","m","p">> >>

IsUnder(file_path, base) ==
    /\ Len(file_path) >= Len(base)
    /\ SubSeq(file_path, 1, Len(base)) = base

\* Path.relative_to(base): the parts below base; raises ValueError when
\* file_path is not under base
RelativeTo(file_path, base) ==
    IF IsUnder(file_path, base)
    THEN [raised |-> FALSE, parts |-> SubSeq(file_path, Len(base) + 1, Len(file_path))]
    ELSE [raised |-> TRUE, exc |-> "ValueError"]

\* _get_schema_name_from_path that leaves the ed-fi namespace as it is
GetSchemaNameNoPrefixMap(file_path) ==
    LET relative_path == RelativeTo(file_path, data_lake_root) IN
    IF relative_path.raised THEN relative_path
    ELSE LET path_parts == relative_path.parts IN
         IF Len(path_parts) < 2
         THEN [raised |-> FALSE, value |-> None]
         ELSE [raised |-> FALSE,
               value |-> Some(path_parts[1] \o <<"_">> \o PluralizeToSingular(path_parts[2]))]

\* _get_schema_name_from_path: the call's outcome, a raised ValueError or the
\* returned Optional[str]
GetSchemaNameFromPath(file_path) ==
    LET relative_path == RelativeTo(file_path, data_lake_root) IN
    IF relative_path.raised THEN relative_path
    ELSE LET path_parts == relative_path.parts IN
         IF Len(path_parts) < 2
         THEN [raised |-> FALSE, value |-> None]
         ELSE LET namespace == path_parts[1]
                  entity_type == path_parts[2]
                  singular_entity == PluralizeToSingular(entity_type)
              IN [raised |-> FALSE,
                  value |-> Some(IF namespace = W_edfi
                                 THEN W_edFi \o <<"_">> \o singular_entity
                                 ELSE namespace \o <<"_">> \o singular_entity)]

\* str(path): the segments joined by "/"
RECURSIVE PathStr(_)
PathStr(path) ==
    IF path = <<>> THEN <<>>
    ELSE <<"/">> \o Head(path) \o PathStr(Tail(path))

\* Path(text).parts: the text split at "/", empty and "." segments dropped
RECURSIVE SplitPath(_, _)
SplitPath(text, segment) ==
    LET flush == IF segment = <<>> \/ segment = <<".">> THEN <<>> ELSE <<segment>> IN
    IF text = <<>> THEN flush
    ELSE IF Head(text) = "/" THEN flush \o SplitPath(Tail(text), <<>>)
    ELSE SplitPath(Tail(text), Append(segment, Head(text)))

ParsePath(text) == SplitPath(text, <<>>)

\* ------------------------------------------------- JSON values and schemas

NoProperties == [p \in {} |-> 0]

NoRef == <<>>

StringSchema(minLength, maxLength, format) ==
    [ref |-> NoRef, type |-> "string", required |-> {}, properties |-> NoProperties,
     minLength |-> minLength, maxLength |-> maxLength, format |-> format]

IntegerSchema ==
    [ref |-> NoRef, type |-> "integer", required |-> {}, properties |-> NoProperties,
     minLength |-> 0, maxLength |-> -1, format |-> "none"]

\* {"$ref": "#/components/schemas/<name>"}
RefSchema(name) ==
    [ref |-> name, type |-> "any", required |-> {}, properties |-> NoProperties,
     minLength |-> 0, maxLength |-> -1, format |-> "none"]

ObjectSchema(required, properties) ==
    [ref |-> NoRef, type |-> "object", required |-> required, properties |-> properties,
     minLength |-> 0, maxLength |-> -1, format |-> "none"]

JString(len, isDate) == [kind |-> "string", len |-> len, isDate |-> isDate, fields |-> NoProperties]

JInteger == [kind |-> "integer", len |-> 0, isDate |-> FALSE, fields |-> NoProperties]

JObject(fields) == [kind |-> "object", len |-> 0, isDate |-> FALSE, fields |-> fields]

Worst(verdicts) ==
    IF "ref_error" \in verdicts THEN "ref_error"
    ELSE IF "violation" \in verdicts THEN "violation"
    ELSE "ok"

\* a validator of a draft without the `required` list keyword
RECURSIVE JsonschemaValidateNoRequired(_, _, _)
JsonschemaValidateNoRequired(instance, schema, table) ==
    IF schema.ref # NoRef
    THEN IF schema.ref \in DOMAIN table
         THEN JsonschemaValidateNoRequired(instance, table[schema.ref], table)
         ELSE "ref_error"
    ELSE LET typeOk == schema.type = "any" \/ schema.type = instance.kind
             lengthOk == instance.kind = "string" =>
                             /\ instance.len >= schema.minLength
                             /\ schema.maxLength >= 0 => instance.len <= schema.maxLength
             present == IF instance.kind = "object"
                        THEN DOMAIN schema.properties \cap DOMAIN instance.fields
                        ELSE {}
         IN Worst({IF typeOk /\ lengthOk THEN "ok" ELSE "violation"}
                  \cup {JsonschemaValidateNoRequired(instance.fields[p],
                                                     schema.properties[p], table) :
                          p \in present})

\* a validator that takes a $ref for an empty schema and follows it nowhere
RECURSIVE JsonschemaValidateRefUnfollowed(_, _, _)
JsonschemaValidateRefUnfollowed(instance, schema, table) ==
    IF schema.ref # NoRef
    THEN "ok"
    ELSE LET typeOk == schema.type = "any" \/ schema.type = instance.kind
             requiredOk == instance.kind = "object" =>
                               schema.required \subseteq DOMAIN instance.fields
             lengthOk == instance.kind = "string" =>
                             /\ instance.len >= schema.minLength
                             /\ schema.maxLength >= 0 => instance.len <= schema.maxLength
             present == IF instance.kind = "object"
                        THEN DOMAIN schema.properties \cap DOMAIN instance.fields
                        ELSE {}
         IN Worst({IF typeOk /\ requiredOk /\ lengthOk THEN "ok" ELSE "violation"}
                  \cup {JsonschemaValidateRefUnfollowed(instance.fields[p],
                                                        schema.properties[p], table) :
                          p \in present})

\* jsonschema.validate(instance, schema, resolver): "ok" when it returns,
\* "violation" when it raises ValidationError, "ref_error" when resolving a
\* $ref raises RefResolutionError.  No format_checker is passed, so `format`
\* is not asserted.
RECURSIVE JsonschemaValidate(_, _, _)
JsonschemaValidate(instance, schema, table) ==
    IF schema.ref # NoRef
    THEN IF schema.ref \in DOMAIN table
         THEN JsonschemaValidate(instance, table[schema.ref], table)
         ELSE "ref_error"
    ELSE LET typeOk == schema.type = "any" \/ schema.type = instance.kind
             requiredOk == instance.kind = "object" =>
                               schema.required \subseteq DOMAIN instance.fields
             lengthOk == instance.kind = "string" =>
                             /\ instance.len >= schema.minLength
                             /\ schema.maxLength >= 0 => instance.len <= schema.maxLength
             present == IF instance.kind = "object"
                        THEN DOMAIN schema.properties \cap DOMAIN instance.fields
                        ELSE {}
         IN Worst({IF typeOk /\ requiredOk /\ lengthOk THEN "ok" ELSE "violation"}
                  \cup {JsonschemaValidate(instance.fields[p], schema.properties[p], table) :
                          p \in present})

\* ------------------------------------------------ schema tables (inputs)

W_schoolReference == <<"s","c","h","o","o","l","R","e","f","e","r","e","n","c","e">>
W_personReference == <<"p","e","r","s","o","n","R","e","f","e","r","e","n","c","e">>

N_edFi_student == W_edFi \o <<"_">> \o W_student
N_edFi_academicWeek == W_edFi \o <<"_">> \o W_academicWeek
N_edFi_schoolReference == W_edFi \o <<"_">> \o W_schoolReference
N_tpdm_candidate == W_tpdm \o <<"_">> \o W_candidate
N_tpdm_personReference == W_tpdm \o <<"_">> \o W_personReference

PlainString == StringSchema(0, -1, "none")

\* the schemas of a loaded OpenAPI document; tpdm_candidate refers to a
\* schema the document does not define
FixtureTable ==
    (N_edFi_student :>
        ObjectSchema({"firstName", "lastSurname"},
                     [firstName |-> PlainString,
                      lastSurname |-> PlainString,
                      studentUniqueId |-> StringSchema(0, 32, "none"),
                      birthDate |-> StringSchema(0, -1, "date")]))
    @@ (N_edFi_academicWeek :>
        ObjectSchema({"weekIdentifier", "schoolReference"},
                     [weekIdentifier |-> StringSchema(5, 80, "none"),
                      schoolReference |-> RefSchema(N_edFi_schoolReference)]))
    @@ (N_edFi_schoolReference :>
        ObjectSchema({"schoolId"}, [schoolId |-> IntegerSchema]))
    @@ (N_tpdm_candidate :>
        ObjectSchema({"candidateIdentifier"},
                     [candidateIdentifier |-> StringSchema(1, 32, "none"),
                      personReference |-> RefSchema(N_tpdm_personReference)]))

\* an OpenAPI document without components.schemas
EmptyTable == [n \in {} |-> 0]

SchemaTables == {FixtureTable, EmptyTable}

\* --------------------------------------------------- data lake (inputs)

DocStudentOk ==
    JObject([firstName |-> JString(4, FALSE), lastSurname |-> JString(3, FALSE),
             birthDate |-> JString(10, TRUE)])

DocStudentMissing ==
    JObject([firstName |-> JString(4, FALSE), birthDate |-> JString(10, TRUE)])

DocWeekOk ==
    JObject([weekIdentifier |-> JString(6, FALSE),
             schoolReference |-> JObject([schoolId |-> JInteger])])

DocWeekNoSchoolId ==
    JObject([weekIdentifier |-> JString(6, FALSE),
             schoolReference |-> JObject(NoProperties)])

DocCandidate ==
    JObject([candidateIdentifier |-> JString(3, FALSE),
             personReference |-> JObject(NoProperties)])

Json(doc) == [kind |-> "json", doc |-> doc]
Malformed == [kind |-> "malformed", doc |-> JInteger]
Unreadable == [kind |-> "unreadable", doc |-> JInteger]
\* a file during whose read the user's interrupt (Ctrl-C) arrives
Interrupted == [kind |-> "interrupted", doc |-> JInteger]

F_a == <<"a",".","j","s","o","n">>
F_b == <<"b",".","J","S","O","N">>
F_c == <<"c",".","j","s","o","n">>
F_d == <<"d",".","j","s","o","n">>
F_n == <<"n",".","t","x","t">>

File(path, content) == [path |-> path, content |-> content]

\* the files a generated data lake is made of, each at its path below the root
FileUniverse ==
    { File(<<W_edfi, W_students, F_a>>, Json(DocStudentOk)),
      File(<<W_edfi, W_students, F_b>>, Json(DocStudentMissing)),
      File(<<W_edfi, W_students, F_c>>, Malformed),
      File(<<W_edfi, W_students, F_d>>, Unreadable),
      File(<<W_edfi, W_students, F_n>>, Malformed),
      File(<<W_tpdm, W_candidates, F_a>>, Json(DocCandidate)),
      File(<<W_edfi, W_academicWeeks, <<"x">>, F_a>>, Json(DocWeekNoSchoolId)),
      File(<<W_edfi, F_a>>, Json(DocStudentOk)),
      File(<<F_a>>, Json(DocStudentOk)) }

Dir(path) == SubSeq(path, 1, Len(path) - 1)

IsPrefix(a, b) == Len(a) <= Len(b) /\ SubSeq(b, 1, Len(a)) = a

CommonLen(a, b) ==
    LET m == IF Len(a) < Len(b) THEN Len(a) ELSE Len(b) IN
    CHOOSE n \in 0..m :
        /\ SubSeq(a, 1, n) = SubSeq(b, 1, n)
        /\ n = m \/ a[n + 1] # b[n + 1]

\* os.walk is top-down: a directory's own files come before the files of its
\* subdirectories, and each directory's subtree is listed in one stretch; the
\* order of the entries inside one directory is the file system's
IsWalkOrder(files) ==
    /\ \A i, j \in 1..Len(files) : i # j => files[i].path # files[j].path
    /\ \A i, j \in 1..Len(files) :
          i < j => ~(/\ IsPrefix(Dir(files[j].path), Dir(files[i].path))
                     /\ Dir(files[j].path) # Dir(files[i].path))
    /\ \A i, j, k \in 1..Len(files) :
          (i < j /\ j < k) =>
              LET a == Dir(files[i].path)
                  c == Dir(files[k].path)
              IN IsPrefix(SubSeq(a, 1, CommonLen(a, c)), Dir(files[j].path))

Trees ==
    UNION { {t \in [1..n -> FileUniverse] : IsWalkOrder(t)} : n \in 0..MaxFiles }

\* ------------------------------------------------------ ValidationResult

\* ValidationResult.__init__ that drops the errors it is given
NewValidationResultNoErrors(file_path, schema_name, is_valid, errors) ==
    [file_path |-> file_path, schema_name |-> schema_name, is_valid |-> is_valid,
     errors |-> <<>>]

\* ValidationResult.__init__: errors defaults to None, and `errors or []`
NewValidationResult(file_path, schema_name, is_valid, errors) ==
    [file_path |-> file_path, schema_name |-> schema_name, is_valid |-> is_valid,
     errors |-> IF errors = None \/ errors = Some(<<>>) THEN <<>> ELSE errors.value]

Returned(result) == [raised |-> FALSE, result |-> result]

Raised(exc) == [raised |-> TRUE, exc |-> exc]

\* ---------------------------------------------------- _validate_json_file

\* open(file_path) and json.load(f): the parsed document, or the exception
FileExists(file_path) ==
    \E i \in 1..Len(tree) : data_lake_root \o tree[i].path = file_path

OpenAndLoad(file_path) ==
    IF FileExists(file_path)
    THEN LET i == CHOOSE k \in 1..Len(tree) : data_lake_root \o tree[k].path = file_path
             content == tree[i].content
         IN IF content.kind = "unreadable" THEN [kind |-> "error", exc |-> "PermissionError"]
            ELSE IF content.kind = "interrupted"
            THEN [kind |-> "error", exc |-> "KeyboardInterrupt"]
            ELSE IF content.kind = "malformed" THEN [kind |-> "error", exc |-> "JSONDecodeError"]
            ELSE [kind |-> "json", doc |-> content.doc]
    ELSE IF \E i \in 1..Len(tree) :
               /\ IsPrefix(file_path, data_lake_root \o tree[i].path)
               /\ file_path # data_lake_root \o tree[i].path
         THEN [kind |-> "error", exc |-> "IsADirectoryError"]
         ELSE [kind |-> "error", exc |-> "FileNotFoundError"]

MsgCannotDetermine == <<"Cannot determine schema from file path">>

MsgSchemaNotFound(schema_name) ==
    <<"Schema '">> \o schema_name \o <<"' not found in OpenAPI specification">>

MsgInvalidJson == <<"Invalid JSON format: ", "JSONDecodeError">>

MsgValidationFailed == <<"Schema validation failed: ", "ValidationError.message">>

MsgUnexpected(exc) == <<"Unexpected error: ", exc>>

\* the try block without its `except Exception` clause
ValidateAgainstSchemaNoCatchAll(file_path, schema_name) ==
    LET loaded == OpenAndLoad(file_path) IN
    IF loaded.kind = "error"
    THEN IF loaded.exc = "JSONDecodeError"
         THEN Returned(NewValidationResult(PathStr(file_path), schema_name, FALSE,
                                           Some(<<MsgInvalidJson>>)))
         ELSE Raised(loaded.exc)
    ELSE LET schema == schemas[schema_name]
             verdict == JsonschemaValidate(loaded.doc, schema, schemas)
         IN IF verdict = "ok"
            THEN Returned(NewValidationResult(PathStr(file_path), schema_name, TRUE, None))
            ELSE IF verdict = "violation"
            THEN Returned(NewValidationResult(PathStr(file_path), schema_name, FALSE,
                                              Some(<<MsgValidationFailed>>)))
            ELSE Raised("RefResolutionError")

\* `except Exception`: KeyboardInterrupt and SystemExit derive from
\* BaseException only
IsException(exc) == exc \notin {"KeyboardInterrupt", "SystemExit"}

\* the try block with a bare `except:` for its last clause
ValidateAgainstSchemaBareExcept(file_path, schema_name) ==
    LET loaded == OpenAndLoad(file_path) IN
    IF loaded.kind = "error"
    THEN IF loaded.exc = "JSONDecodeError"
         THEN Returned(NewValidationResult(PathStr(file_path), schema_name, FALSE,
                                           Some(<<MsgInvalidJson>>)))
         ELSE Returned(NewValidationResult(PathStr(file_path), schema_name, FALSE,
                                           Some(<<MsgUnexpected(loaded.exc)>>)))
    ELSE LET schema == schemas[schema_name]
             verdict == JsonschemaValidate(loaded.doc, schema, schemas)
         IN IF verdict = "ok"
            THEN Returned(NewValidationResult(PathStr(file_path), schema_name, TRUE, None))
            ELSE IF verdict = "violation"
            THEN Returned(NewValidationResult(PathStr(file_path), schema_name, FALSE,
                                              Some(<<MsgValidationFailed>>)))
            ELSE Returned(NewValidationResult(PathStr(file_path), schema_name, FALSE,
                                              Some(<<MsgUnexpected("RefResolutionError")>>)))

\* the try block of _validate_json_file and its three except clauses;
\* an exception that is no Exception passes them all
ValidateAgainstSchema(file_path, schema_name) ==
    LET loaded == OpenAndLoad(file_path) IN
    IF loaded.kind = "error"
    THEN IF loaded.exc = "JSONDecodeError"
         THEN Returned(NewValidationResult(PathStr(file_path), schema_name, FALSE,
                                           Some(<<MsgInvalidJson>>)))
         ELSE IF IsException(loaded.exc)
         THEN Returned(NewValidationResult(PathStr(file_path), schema_name, FALSE,
                                           Some(<<MsgUnexpected(loaded.exc)>>)))
         ELSE Raised(loaded.exc)
    ELSE LET schema == schemas[schema_name]
             verdict == JsonschemaValidate(loaded.doc, schema, schemas)
         IN IF verdict = "ok"
            THEN Returned(NewValidationResult(PathStr(file_path), schema_name, TRUE, None))
            ELSE IF verdict = "violation"
            THEN Returned(NewValidationResult(PathStr(file_path), schema_name, FALSE,
                                              Some(<<MsgValidationFailed>>)))
            ELSE Returned(NewValidationResult(PathStr(file_path), schema_name, FALSE,
                                              Some(<<MsgUnexpected("RefResolutionError")>>)))

\* _validate_json_file reporting a missing schema under the "unknown" name
ValidateJsonFileUnknownForMissing(file_path) ==
    LET resolved == GetSchemaNameFromPath(file_path) IN
    IF resolved.raised THEN Raised(resolved.exc)
    ELSE LET schema_name == resolved.value IN
         IF schema_name = None \/ schema_name = Some(<<>>)
         THEN Returned(NewValidationResult(PathStr(file_path), W_unknown, FALSE,
                                           Some(<<MsgCannotDetermine>>)))
         ELSE IF schema_name.value \notin DOMAIN schemas
         THEN Returned(NewValidationResult(PathStr(file_path), W_unknown, FALSE,
                                           Some(<<MsgSchemaNotFound(schema_name.value)>>)))
         ELSE ValidateAgainstSchema(file_path, schema_name.value)

\* _validate_json_file that opens and parses the file before it looks the
\* schema up
ValidateJsonFileOpensFirst(file_path) ==
    LET resolved == GetSchemaNameFromPath(file_path) IN
    IF resolved.raised THEN Raised(resolved.exc)
    ELSE LET schema_name == resolved.value IN
         IF schema_name = None \/ schema_name = Some(<<>>)
         THEN Returned(NewValidationResult(PathStr(file_path), W_unknown, FALSE,
                                           Some(<<MsgCannotDetermine>>)))
         ELSE LET loaded == OpenAndLoad(file_path) IN
              IF loaded.kind = "error" /\ loaded.exc = "JSONDecodeError"
              THEN Returned(NewValidationResult(PathStr(file_path), schema_name.value, FALSE,
                                                Some(<<MsgInvalidJson>>)))
              ELSE IF loaded.kind = "error"
              THEN Returned(NewValidationResult(PathStr(file_path), schema_name.value, FALSE,
                                                Some(<<MsgUnexpected(loaded.exc)>>)))
              ELSE IF schema_name.value \notin DOMAIN schemas
              THEN Returned(NewValidationResult(PathStr(file_path), schema_name.value, FALSE,
                                                Some(<<MsgSchemaNotFound(schema_name.value)>>)))
              ELSE ValidateAgainstSchema(file_path, schema_name.value)

\* _validate_json_file: the call's outcome, a raised exception or the returned
\* ValidationResult
ValidateJsonFile(file_path) ==
    LET resolved == GetSchemaNameFromPath(file_path) IN
    IF resolved.raised THEN Raised(resolved.exc)
    ELSE LET schema_name == resolved.value IN
         IF schema_name = None \/ schema_name = Some(<<>>)
         THEN Returned(NewValidationResult(PathStr(file_path), W_unknown, FALSE,
                                           Some(<<MsgCannotDetermine>>)))
         ELSE IF schema_name.value \notin DOMAIN schemas
         THEN Returned(NewValidationResult(PathStr(file_path), schema_name.value, FALSE,
                                           Some(<<MsgSchemaNotFound(schema_name.value)>>)))
         ELSE ValidateAgainstSchema(file_path, schema_name.value)

\* validate_file(file_path: str)
ValidateFileCall(file_path) == ValidateJsonFile(ParsePath(file_path))

\* ------------------------------------------------------- _find_json_files

FindJsonFiles ==
    LET Keep(i) == EndsWith(Lower(tree[i].path[Len(tree[i].path)]), W_dotjson)
        F[i \in 0..Len(tree)] ==
            IF i = 0 THEN <<>>
            ELSE IF Keep(i) THEN Append(F[i - 1], data_lake_root \o tree[i].path)
            ELSE F[i - 1]
    IN F[Len(tree)]

\* ------------------------------------------------------------ validate_all

CountValid(rs) == Cardinality({i \in 1..Len(rs) : rs[i].is_valid})

\* the summary dict without the total_files > 0 test: den = 0 is the division
\* by zero
SummaryUnguarded(rs) ==
    LET total_files == Len(rs)
        valid_files == CountValid(rs)
        invalid_files == total_files - valid_files
    IN [total_files |-> total_files,
        valid_files |-> valid_files,
        invalid_files |-> invalid_files,
        success_rate |-> [num |-> valid_files * 100, den |-> total_files]]

\* the summary dict; success_rate is the fraction num/den
Summary(rs) ==
    LET total_files == Len(rs)
        valid_files == CountValid(rs)
        invalid_files == total_files - valid_files
    IN [total_files |-> total_files,
        valid_files |-> valid_files,
        invalid_files |-> invalid_files,
        success_rate |-> IF total_files > 0
                         THEN [num |-> valid_files * 100, den |-> total_files]
                         ELSE [num |-> 0, den |-> 1]]

\* ---------------------------------------------------------------- actions

NoReturn == [op |-> "none"]

\* the strings handed to validate_file
FileArgs ==
    { PathStr(data_lake_root \o f.path) : f \in FileUniverse }
    \cup { PathStr(data_lake_root),
           PathStr(data_lake_root \o <<W_edfi, W_students>>),
           PathStr(OtherBase \o <<W_edfi, W_students, F_a>>),
           PathStr(data_lake_root) \o <<"/", ".", "/">> \o W_edfi \o <<"/", "/">>
               \o W_students \o <<"/">> \o F_a }

Init ==
    /\ tree \in Trees
    /\ schemas \in SchemaTables
    /\ pc = "idle"
    /\ json_files = <<>>
    /\ results = <<>>
    /\ ret = NoReturn
    /\ arg = <<>>
    /\ out = None

\* validate_file with a lookup (self.schemas.setdefault(schema_name, {})) that
\* enters the names it does not find
ValidateFileEntersMissing ==
    /\ pc = "idle"
    /\ \E file_path \in FileArgs :
          LET resolved == GetSchemaNameFromPath(ParsePath(file_path)) IN
          /\ ret' = [op |-> "validate_file", input |-> file_path,
                     outcome |-> ValidateFileCall(file_path)]
          /\ schemas' = IF ~resolved.raised /\ resolved.value # None
                            /\ resolved.value.value \notin DOMAIN schemas
                         THEN (resolved.value.value :> ObjectSchema({}, NoProperties))
                              @@ schemas
                         ELSE schemas
    /\ UNCHANGED <<tree, pc, json_files, results, arg, out>>

\* validator.validate_file(file_path)
ValidateFile ==
    /\ pc = "idle"
    /\ \E file_path \in FileArgs :
          ret' = [op |-> "validate_file", input |-> file_path,
                  outcome |-> ValidateFileCall(file_path)]
    /\ UNCHANGED <<tree, schemas, pc, json_files, results, arg, out>>

\* validator.get_available_schemas()
GetAvailableSchemas ==
    /\ pc = "idle"
    /\ ret' = [op |-> "get_available_schemas", names |-> DOMAIN schemas]
    /\ UNCHANGED <<tree, schemas, pc, json_files, results, arg, out>>

\* validate_all that skips the files an earlier run has validated
ValidateAllBeginSkipsSeen ==
    /\ pc = "idle"
    /\ json_files' = IF ret.op = "validate_all" THEN <<>> ELSE FindJsonFiles
    /\ results' = <<>>
    /\ pc' = "loop"
    /\ UNCHANGED <<tree, schemas, ret, arg, out>>

\* validate_all up to its loop: json_files = self._find_json_files(); results = []
ValidateAllBegin ==
    /\ pc = "idle"
    /\ json_files' = FindJsonFiles
    /\ results' = <<>>
    /\ pc' = "loop"
    /\ UNCHANGED <<tree, schemas, ret, arg, out>>

\* the loop pass with results.insert(0, result) in place of results.append
ValidateAllStepPrepend ==
    /\ pc = "loop"
    /\ Len(results) < Len(json_files)
    /\ LET outcome == ValidateJsonFile(json_files[Len(results) + 1]) IN
       IF outcome.raised
       THEN /\ pc' = "idle"
            /\ ret' = [op |-> "validate_all", outcome |-> outcome]
            /\ json_files' = <<>>
            /\ results' = <<>>
       ELSE /\ results' = <<outcome.result>> \o results
            /\ UNCHANGED <<pc, ret, json_files>>
    /\ UNCHANGED <<tree, schemas, arg, out>>

\* one pass of `for file_path in json_files`; an exception leaving
\* _validate_json_file leaves validate_all too
ValidateAllStep ==
    /\ pc = "loop"
    /\ Len(results) < Len(json_files)
    /\ LET outcome == ValidateJsonFile(json_files[Len(results) + 1]) IN
       IF outcome.raised
       THEN /\ pc' = "idle"
            /\ ret' = [op |-> "validate_all", outcome |-> outcome]
            /\ json_files' = <<>>
            /\ results' = <<>>
       ELSE /\ results' = Append(results, outcome.result)
            /\ UNCHANGED <<pc, ret, json_files>>
    /\ UNCHANGED <<tree, schemas, arg, out>>

\* validate_all after its loop: the summary and the return (the locals end
\* with the call)
ValidateAllEnd ==
    /\ pc = "loop"
    /\ Len(results) = Len(json_files)
    /\ pc' = "idle"
    /\ ret' = [op |-> "validate_all",
               outcome |-> Returned([results |-> results, summary |-> Summary(results)])]
    /\ json_files' = <<>>
    /\ results' = <<>>
    /\ UNCHANGED <<tree, schemas, arg, out>>

Next ==
    \/ ValidateFile
    \/ GetAvailableSchemas
    \/ ValidateAllBegin
    \/ ValidateAllStep
    \/ ValidateAllEnd

Spec == Init /\ [][Next]_vars

\* -------------------------------------- _pluralize_to_singular on its own

Alphabet == {"a", "c", "e", "h", "i", "s", "x"}

NamedWords ==
    {W_candidates, W_courses, W_academicWeeks, W_students, W_addresses, W_categories}

Words == NamedWords \cup UNION { [1..n -> Alphabet] : n \in 0..MaxWordLen }

InitSingular ==
    /\ tree = <<>>
    /\ schemas = EmptyTable
    /\ pc = "call"
    /\ json_files = <<>>
    /\ results = <<>>
    /\ ret = NoReturn
    /\ arg \in Words
    /\ out = None

\* validator._pluralize_to_singular(arg)
Singularize ==
    /\ pc = "call"
    /\ out' = Some(PluralizeToSingular(arg))
    /\ pc' = "return"
    /\ UNCHANGED <<tree, schemas, json_files, results, ret, arg>>

SpecSingular == InitSingular /\ [][Singularize]_vars

\* ---------------------------------- _get_schema_name_from_path on its own

DirSegments == {W_edfi, W_tpdm, W_students, W_addresses, W_courses}

\* files under up to MaxDepth directories, below the root or elsewhere
GeneratedPaths ==
    { base \o dirs \o <<name>> :
        base \in {data_lake_root, OtherBase},
        dirs \in UNION { [1..n -> DirSegments] : n \in 0..MaxDepth },
        name \in {F_a, F_b} }

InitResolve ==
    /\ tree = <<>>
    /\ schemas = EmptyTable
    /\ pc = "call"
    /\ json_files = <<>>
    /\ results = <<>>
    /\ ret = NoReturn
    /\ arg \in GeneratedPaths
    /\ out = None

\* validator._get_schema_name_from_path(arg)
Resolve ==
    /\ pc = "call"
    /\ out' = GetSchemaNameFromPath(arg)
    /\ pc' = "return"
    /\ UNCHANGED <<tree, schemas, json_files, results, ret, arg>>

SpecResolve == InitResolve /\ [][Resolve]_vars

\* ------------------------------------ validate_file on generated documents

Absent == [kind |-> "absent", len |-> 0, isDate |-> FALSE, fields |-> NoProperties]

\* the JSON object holding the properties a choice does not leave out
ObjectOf(choice) ==
    JObject([p \in {q \in DOMAIN choice : choice[q] # Absent} |-> choice[p]])

NestedValues ==
    {Absent, JInteger, JObject(NoProperties), JObject([schoolId |-> JInteger]),
     JObject([schoolId |-> JString(3, FALSE)])}

StudentDocs ==
    { ObjectOf(c) :
        c \in [firstName : {Absent, JString(4, FALSE), JInteger},
               lastSurname : {Absent, JString(3, FALSE)},
               studentUniqueId : {Absent, JString(7, FALSE), JString(40, FALSE)},
               birthDate : {Absent, JString(10, TRUE), JString(10, FALSE)}] }

AcademicWeekDocs ==
    { ObjectOf(c) :
        c \in [weekIdentifier : {Absent, JString(3, FALSE), JString(6, FALSE),
                                 JString(90, FALSE)},
               schoolReference : NestedValues] }

CandidateDocs ==
    { ObjectOf(c) :
        c \in [candidateIdentifier : {Absent, JString(3, FALSE)},
               personReference : {Absent, JObject(NoProperties)}] }

GeneratedFiles ==
    { File(<<W_edfi, W_students, F_a>>, Json(d)) : d \in StudentDocs \cup {JInteger} }
    \cup { File(<<W_edfi, W_academicWeeks, F_a>>, Json(d)) : d \in AcademicWeekDocs }
    \cup { File(<<W_tpdm, W_candidates, F_a>>, Json(d)) : d \in CandidateDocs }
    \cup { File(<<W_edfi, W_students, F_a>>, Malformed) }

InitDocument ==
    /\ tree \in { <<f>> : f \in GeneratedFiles }
    /\ schemas = FixtureTable
    /\ pc = "idle"
    /\ json_files = <<>>
    /\ results = <<>>
    /\ ret = NoReturn
    /\ arg = <<>>
    /\ out = None

\* validator.validate_file(str(path of the one file of the tree))
ValidateDocument ==
    /\ pc = "idle"
    /\ ret = NoReturn
    /\ LET file_path == PathStr(data_lake_root \o tree[1].path) IN
       ret' = [op |-> "validate_file", input |-> file_path,
               outcome |-> ValidateFileCall(file_path)]
    /\ UNCHANGED <<tree, schemas, pc, json_files, results, arg, out>>

SpecDocument == InitDocument /\ [][ValidateDocument]_vars

\* --------------------------------------------------- _load_openapi_spec

\* openapi_spec_path as urlparse splits it
Location(scheme, netloc, path) == [scheme |-> scheme, netloc |-> netloc, path |-> path]

W_specjson == <<"s","p","e","c",".","j","s","o","n">>

Locations ==
    {Location(<<>>, <<>>, W_specjson),
     Location(<<"h","t","t","p","s">>, <<"h","o","s","t">>, <<"/">> \o W_specjson),
     Location(<<"c">>, <<>>, <<"/">> \o W_specjson)}

\* _is_url: all([result.scheme, result.netloc])
IsUrl(location) == location.scheme # <<>> /\ location.netloc # <<>>

\* the value of the key "schemas" of the components mapping, if any
SchemasValues ==
    {[kind |-> "absent", table |-> EmptyTable], [kind |-> "null", table |-> EmptyTable]}
    \cup {[kind |-> "mapping", table |-> t] : t \in SchemaTables}

\* the value of the key "components" of the document, if any
ComponentsValues ==
    {[kind |-> "absent", schemas |-> [kind |-> "absent", table |-> EmptyTable]],
     [kind |-> "null", schemas |-> [kind |-> "absent", table |-> EmptyTable]]}
    \cup {[kind |-> "mapping", schemas |-> v] : v \in SchemasValues}

\* what json.loads or yaml.safe_load makes of the text: a mapping, or a list,
\* a scalar or None (the empty YAML document)
ParsedValues ==
    {[kind |-> k, components |-> [kind |-> "absent",
                                  schemas |-> [kind |-> "absent", table |-> EmptyTable]]] :
        k \in {"list", "string", "null"}}
    \cup {[kind |-> "mapping", components |-> c] : c \in ComponentsValues}

\* the text behind the path: JSON, YAML that is not JSON, or neither
SpecTexts ==
    {[syntax |-> x, value |-> v] : x \in {"json", "yaml"}, v \in ParsedValues}
    \cup {[syntax |-> "neither", value |-> CHOOSE v \in ParsedValues : v.kind = "null"]}

SpecSources ==
    {[location |-> l, fetched |-> TRUE, text |-> t] : l \in Locations, t \in SpecTexts}
    \cup {[location |-> l, fetched |-> FALSE,
           text |-> CHOOSE t \in SpecTexts : t.syntax = "neither"] : l \in Locations}

\* _load_openapi_spec: the table it leaves in self.schemas, or the exception
\* its `except Exception` clause logs and raises again
LoadOpenapiSpec(source) ==
    IF ~source.fetched
    THEN Raised(IF IsUrl(source.location) THEN "RequestException" ELSE "FileNotFoundError")
    ELSE IF source.text.syntax = "neither" THEN Raised("ValueError")
    ELSE LET openapi_spec == source.text.value IN
         IF openapi_spec.kind # "mapping" THEN Raised("AttributeError")
         ELSE LET components == openapi_spec.components IN
              IF components.kind = "absent" THEN Returned(EmptyTable)
              ELSE IF components.kind # "mapping" THEN Raised("AttributeError")
              ELSE IF components.schemas.kind = "absent" THEN Returned(EmptyTable)
              ELSE IF components.schemas.kind # "mapping" THEN Raised("TypeError")
              ELSE Returned(components.schemas.table)

InitLoad ==
    /\ tree = <<>>
    /\ schemas = EmptyTable
    /\ pc = "call"
    /\ json_files = <<>>
    /\ results = <<>>
    /\ ret = NoReturn
    /\ arg \in SpecSources
    /\ out = None

\* DataLakeValidator(data_lake_root, arg)
Construct ==
    /\ pc = "call"
    /\ LET outcome == LoadOpenapiSpec(arg) IN
       /\ out' = outcome
       /\ schemas' = IF outcome.raised THEN schemas ELSE outcome.result
    /\ pc' = "return"
    /\ UNCHANGED <<tree, json_files, results, ret, arg>>

SpecLoad == InitLoad /\ [][Construct]_vars

\* ------------------------------------------------------- __main__.main

\* a --data-lake-root that does not exist
MissingRoot == << <<"n","o","n","e">> >>

F_e == <<"e",".","j","s","o","n">>

CliFileUniverse ==
    { File(<<W_edfi, W_students, F_a>>, Json(DocStudentOk)),
      File(<<W_edfi, W_students, F_b>>, Json(DocStudentMissing)),
      File(<<W_edfi, W_students, F_e>>, Interrupted),
      File(<<W_edfi, W_students, F_n>>, Malformed),
      File(<<F_a>>, Json(DocStudentOk)) }

CliTrees ==
    UNION { {t \in [1..n -> CliFileUniverse] : IsWalkOrder(t)} : n \in 0..MaxFiles }

\* --file values: paths relative to the root, and an absolute path of a file
\* that exists outside it
OutsideFile == OtherBase \o <<W_edfi, W_students, F_a>>

CliFileArgs ==
    {None, Some(OutsideFile)}
    \cup {Some(f.path) : f \in {g \in CliFileUniverse : Len(g.path) = 3 /\ g.path[3] # F_n}}

\* --openapi-spec values: a file that is neither JSON nor YAML, and JSON
\* documents with a components.schemas mapping
CliSpecSources ==
    {s \in SpecSources :
        /\ ~IsUrl(s.location)
        /\ s.location.scheme = <<>>
        /\ s.fetched
        /\ \/ s.text.syntax = "neither"
           \/ /\ s.text.syntax = "json"
              /\ s.text.value.kind = "mapping"
              /\ s.text.value.components.kind = "mapping"
              /\ s.text.value.components.schemas.kind = "mapping"}

\* the parsed command line
CliArgs ==
    [data_lake_root : {data_lake_root, MissingRoot},
     openapi_spec : CliSpecSources,
     file : CliFileArgs,
     quiet : BOOLEAN,
     list_schemas : BOOLEAN]

\* data_lake_path / args.file: an absolute right operand replaces the left
JoinPath(base, file) == IF IsPrefix(OtherBase, file) THEN file ELSE base \o file

\* Path.exists()
PathExists(path) ==
    \/ path = OutsideFile
    \/ \E i \in 1..Len(tree) : IsPrefix(path, data_lake_root \o tree[i].path)

Line(kind) == [kind |-> kind]

\* print_validation_results(results)
PrintValidationResults(rs) ==
    <<Line("VALIDATION RESULTS")>>
    \o [i \in 1..Len(rs) |-> [kind |-> "result", file_path |-> rs[i].file_path,
                              is_valid |-> rs[i].is_valid]]

\* print_summary(summary)
PrintSummary(summary) == <<[kind |-> "VALIDATION SUMMARY", summary |-> summary]>>

\* the state of the process: where main is, what it has printed, the status
\* it has exited with, and whether Ctrl-C has reached it outside the reading
\* of a file
Running(stage) == [stage |-> stage, stdout |-> <<>>, exit_code |-> None, sigint |-> FALSE]

\* print(...) then sys.exit(code)
SysExit(printed, code) ==
    [stage |-> "exited", stdout |-> out.stdout \o printed, exit_code |-> Some(code),
     sigint |-> out.sigint]

\* the two except clauses of main; SystemExit passes both
MainExcept(exc) ==
    IF exc = "KeyboardInterrupt"
    THEN SysExit(<<Line("Validation interrupted by user")>>, 1)
    ELSE SysExit(<<[kind |-> "Error", exc |-> exc]>>, 1)

InitCli ==
    /\ tree \in CliTrees
    /\ schemas = EmptyTable
    /\ pc = "idle"
    /\ json_files = <<>>
    /\ results = <<>>
    /\ ret = NoReturn
    /\ arg \in CliArgs
    /\ out = Running("start")

\* main: if not data_lake_path.exists()
CliCheckRoot ==
    /\ out.stage = "start"
    /\ out' = IF arg.data_lake_root # data_lake_root
              THEN SysExit(<<Line("Error: Data lake root directory does not exist")>>, 1)
              ELSE [out EXCEPT !.stage = "construct"]
    /\ UNCHANGED <<tree, schemas, pc, json_files, results, ret, arg>>

\* main: validator = DataLakeValidator(args.data_lake_root, args.openapi_spec)
CliConstruct ==
    /\ out.stage = "construct"
    /\ LET outcome == LoadOpenapiSpec(arg.openapi_spec) IN
       IF outcome.raised
       THEN /\ out' = MainExcept(outcome.exc)
            /\ UNCHANGED schemas
       ELSE /\ schemas' = outcome.result
            /\ out' = [out EXCEPT !.stage = "ready"]
    /\ UNCHANGED <<tree, pc, json_files, results, ret, arg>>

\* main with the listing followed by a validation run that sets the status
CliListSchemasThenValidates ==
    /\ out.stage = "ready"
    /\ arg.list_schemas
    /\ ret' = [op |-> "get_available_schemas", names |-> DOMAIN schemas]
    /\ out' = SysExit(<<[kind |-> "Available schemas", names |-> DOMAIN schemas]>>,
                      IF \E i \in 1..Len(FindJsonFiles) :
                             LET outcome == ValidateJsonFile(FindJsonFiles[i]) IN
                             outcome.raised \/ ~outcome.result.is_valid
                      THEN 1 ELSE 0)
    /\ UNCHANGED <<tree, schemas, pc, json_files, results, arg>>

\* main: if args.list_schemas
CliListSchemas ==
    /\ out.stage = "ready"
    /\ arg.list_schemas
    /\ ret' = [op |-> "get_available_schemas", names |-> DOMAIN schemas]
    /\ out' = SysExit(<<[kind |-> "Available schemas", names |-> DOMAIN schemas]>>, 0)
    /\ UNCHANGED <<tree, schemas, pc, json_files, results, arg>>

\* main: if args.file, up to the summary of the one result
CliValidateFile ==
    /\ out.stage = "ready"
    /\ ~arg.list_schemas
    /\ arg.file # None
    /\ LET file_path == JoinPath(arg.data_lake_root, arg.file.value) IN
       IF ~PathExists(file_path)
       THEN /\ out' = SysExit(<<Line("Error: File does not exist")>>, 1)
            /\ UNCHANGED ret
       ELSE LET outcome == ValidateFileCall(PathStr(file_path)) IN
            /\ ret' = [op |-> "validate_file", input |-> PathStr(file_path),
                       outcome |-> outcome]
            /\ out' = IF outcome.raised
                      THEN MainExcept(outcome.exc)
                      ELSE [out EXCEPT !.stage = "output"]
    /\ UNCHANGED <<tree, schemas, pc, json_files, results, arg>>

\* main: results, summary = validator.validate_all(), the call running
CliValidateAll ==
    /\ out.stage = "ready"
    /\ ~arg.list_schemas
    /\ arg.file = None
    /\ ret.op # "validate_all"
    /\ \/ ValidateAllBegin
       \/ ValidateAllStep
       \/ ValidateAllEnd

\* main: validate_all has returned or raised
CliAfterValidateAll ==
    /\ out.stage = "ready"
    /\ ret.op = "validate_all"
    /\ out' = IF ret.outcome.raised
              THEN MainExcept(ret.outcome.exc)
              ELSE [out EXCEPT !.stage = "output"]
    /\ UNCHANGED <<tree, schemas, pc, json_files, results, ret, arg>>

\* the results and the summary main holds after either branch
CliResults ==
    IF ret.op = "validate_file" THEN <<ret.outcome.result>> ELSE ret.outcome.result.results

CliSummary ==
    IF ret.op = "validate_file"
    THEN LET is_valid == ret.outcome.result.is_valid IN
         [total_files |-> 1,
          valid_files |-> IF is_valid THEN 1 ELSE 0,
          invalid_files |-> IF is_valid THEN 0 ELSE 1,
          success_rate |-> [num |-> IF is_valid THEN 100 ELSE 0, den |-> 1]]
    ELSE ret.outcome.result.summary

\* main ending with sys.exit(summary["invalid_files"])
CliOutputExitsWithCount ==
    /\ out.stage = "output"
    /\ out' = SysExit((IF arg.quiet THEN <<>> ELSE PrintValidationResults(CliResults))
                          \o PrintSummary(CliSummary),
                      CliSummary.invalid_files)
    /\ UNCHANGED <<tree, schemas, pc, json_files, results, ret, arg>>

\* main: the output and the exit status
CliOutput ==
    /\ out.stage = "output"
    /\ out' = SysExit((IF arg.quiet THEN <<>> ELSE PrintValidationResults(CliResults))
                          \o PrintSummary(CliSummary),
                      IF CliSummary.invalid_files > 0 THEN 1 ELSE 0)
    /\ UNCHANGED <<tree, schemas, pc, json_files, results, ret, arg>>

\* Ctrl-C while main runs code outside the try block of _validate_json_file:
\* KeyboardInterrupt unwinds to main's `except KeyboardInterrupt`
CliInterrupt ==
    /\ out.stage \in {"start", "construct", "ready", "output"}
    /\ out' = [MainExcept("KeyboardInterrupt") EXCEPT !.sigint = TRUE]
    /\ pc' = "idle"
    /\ json_files' = <<>>
    /\ results' = <<>>
    /\ UNCHANGED <<tree, schemas, ret, arg>>

NextCli ==
    \/ CliCheckRoot
    \/ CliConstruct
    \/ CliListSchemas
    \/ CliValidateFile
    \/ CliValidateAll
    \/ CliAfterValidateAll
    \/ CliOutput
    \/ CliInterrupt

SpecCli == InitCli /\ [][NextCli]_vars

\* ----------------------------------------------------------------- claims

ReturnedFromValidateFile == ret.op = "validate_file" /\ ~ret.outcome.raised

ReturnedFromValidateAll == ret.op = "validate_all" /\ ~ret.outcome.raised

\* every ValidationResult a call has handed out or holds
ProducedResults ==
    {results[i] : i \in 1..Len(results)}
    \cup (IF ReturnedFromValidateFile THEN {ret.outcome.result} ELSE {})
    \cup (IF ReturnedFromValidateAll
          THEN {ret.outcome.result.results[i] : i \in 1..Len(ret.outcome.result.results)}
          ELSE {})

\* C1: validate_file never raises, whatever path it is given: every completed
\* call has returned a ValidationResult.
C1_ValidateFileNeverRaises ==
    ret.op = "validate_file" => ~ret.outcome.raised

\* the files the directory walk discovers: the entries of the tree, in walk
\* order, whose name ends in ".json" whatever the case of its letters
HasJsonExtension(f) ==
    LET name == f.path[Len(f.path)] IN
    /\ Len(name) >= 5
    /\ [i \in 1..5 |-> LowerChar(name[Len(name) - 5 + i])] = <<".", "j", "s", "o", "n">>

Discovered ==
    LET kept == SelectSeq(tree, HasJsonExtension) IN
    [i \in 1..Len(kept) |-> data_lake_root \o kept[i].path]

\* C2: validate_all returns exactly one result per discovered JSON file, in
\* discovery order: the i-th result carries the i-th discovered file's path
\* and there are as many results as discovered files; while the loop runs the
\* results so far are those of the first discovered files, in order.
C2_OneResultPerFileInOrder ==
    /\ pc = "loop" =>
          /\ json_files = Discovered
          /\ Len(results) <= Len(json_files)
          /\ \A i \in 1..Len(results) : results[i].file_path = PathStr(Discovered[i])
    /\ ret.op = "validate_all" =>
          /\ ~ret.outcome.raised
          /\ Len(ret.outcome.result.results) = Len(Discovered)
          /\ \A i \in 1..Len(Discovered) :
                ret.outcome.result.results[i].file_path = PathStr(Discovered[i])

C2_Witness ==
    /\ ReturnedFromValidateAll
    /\ Len(ret.outcome.result.results) = 2
    /\ Len(tree) = 3
    /\ ret.outcome.result.results[1].file_path # ret.outcome.result.results[2].file_path

\* C3: no per-file failure aborts validate_all: it never raises, its loop can
\* always take its next pass or return, and the result it holds for each file
\* is the one validate_file returns for that file alone.
C3_PerFileFailuresIsolated ==
    /\ ret.op = "validate_all" => ~ret.outcome.raised
    /\ pc = "loop" =>
          /\ Len(results) <= Len(json_files)
          /\ \A i \in 1..Len(results) :
                ValidateFileCall(PathStr(json_files[i])) = Returned(results[i])
    /\ ReturnedFromValidateAll =>
          \A i \in 1..Len(ret.outcome.result.results) :
              ValidateFileCall(PathStr(Discovered[i]))
                  = Returned(ret.outcome.result.results[i])

C3_Witness ==
    /\ ReturnedFromValidateAll
    /\ Len(ret.outcome.result.results) = 3
    /\ ret.outcome.result.results[1].schema_name = W_unknown
    /\ ret.outcome.result.results[2].errors = <<MsgUnexpected("PermissionError")>>
    /\ ret.outcome.result.results[3].is_valid

RECURSIVE ValidAmong(_)
ValidAmong(rs) ==
    IF rs = <<>> THEN 0
    ELSE (IF Head(rs).is_valid THEN 1 ELSE 0) + ValidAmong(Tail(rs))

\* C4: the summary is computed from the returned results alone: total_files
\* is their number, valid_files the number of valid ones, invalid_files the
\* rest, and success_rate is valid_files / total_files * 100, or 0 for no
\* files; so total = valid + invalid and 0 <= success_rate <= 100.
C4_SummaryFromResults ==
    ReturnedFromValidateAll =>
        LET rs == ret.outcome.result.results
            summary == ret.outcome.result.summary
            rate == summary.success_rate
        IN /\ summary.total_files = Len(rs)
           /\ summary.valid_files = ValidAmong(rs)
           /\ summary.invalid_files = summary.total_files - summary.valid_files
           /\ summary.total_files = summary.valid_files + summary.invalid_files
           /\ rate.den > 0
           /\ summary.total_files > 0 =>
                  rate.num * summary.total_files = summary.valid_files * 100 * rate.den
           /\ summary.total_files = 0 => rate.num = 0
           /\ 0 <= rate.num
           /\ rate.num <= 100 * rate.den

C4_Witness ==
    /\ ReturnedFromValidateAll
    /\ ret.outcome.result.summary.total_files = 3
    /\ ret.outcome.result.summary.valid_files = 1
    /\ ret.outcome.result.summary.invalid_files = 2

\* C5: in every ValidationResult that validate_file or validate_all produces,
\* the errors list is empty exactly when is_valid is true.
C5_ErrorsEmptyIffValid ==
    \A r \in ProducedResults : (r.errors = <<>>) <=> r.is_valid

C5_Witness ==
    /\ ReturnedFromValidateAll
    /\ \E r \in ProducedResults : r.is_valid /\ r.errors = <<>>
    /\ \E r \in ProducedResults : ~r.is_valid /\ Len(r.errors) = 1

\* C10: when schema resolution returns None for a file the result is invalid,
\* named "unknown", with the one error "Cannot determine schema from file
\* path"; in every other outcome the result carries the resolved schema name,
\* which is never "unknown".
C10_UnknownOnlyWhenUnresolved ==
    \A r \in ProducedResults :
        LET resolved == GetSchemaNameFromPath(ParsePath(r.file_path)) IN
        /\ ~resolved.raised
        /\ resolved.value = None =>
              /\ ~r.is_valid
              /\ r.schema_name = W_unknown
              /\ r.errors = <<MsgCannotDetermine>>
        /\ resolved.value # None =>
              /\ r.schema_name = resolved.value.value
              /\ r.schema_name # W_unknown
              /\ r.errors # <<MsgCannotDetermine>>

C10_Witness ==
    /\ ReturnedFromValidateFile
    /\ ret.input = PathStr(data_lake_root \o <<F_a>>)
    /\ ret.outcome.result.schema_name = W_unknown
    /\ \E i \in 1..Len(tree) : tree[i].path = <<F_a>>

\* the reference rule list of the singularization, in priority order
Overrides ==
    (W_candidates :> W_candidate) @@ (W_courses :> W_course)
    @@ (W_academicWeeks :> W_academicWeek) @@ (W_students :> W_student)

HasSuffix(w, text) == \E n \in 0..Len(w) : SubSeq(w, n + 1, Len(w)) = text

Strip(w, n) == [i \in 1..(Len(w) - n) |-> w[i]]

RuleMatches(rule, w) ==
    CASE rule = 1 -> w \in DOMAIN Overrides
      [] rule = 2 -> HasSuffix(w, <<"i","e","s">>)
      [] rule = 3 -> \E text \in {<<"c","h","e","s">>, <<"s","h","e","s">>, <<"x","e","s">>} :
                         HasSuffix(w, text)
      [] rule = 4 -> HasSuffix(w, <<"s","e","s">>)
      [] rule = 5 -> HasSuffix(w, <<"s">>) /\ ~HasSuffix(w, <<"s","s">>)
      [] rule = 6 -> TRUE

RuleResult(rule, w) ==
    CASE rule = 1 -> Overrides[w]
      [] rule = 2 -> Strip(w, 3) \o <<"y">>
      [] rule = 3 -> Strip(w, 2)
      [] rule = 4 -> IF HasSuffix(w, <<"e","s","e","s">>) THEN Strip(w, 2) ELSE Strip(w, 1)
      [] rule = 5 -> Strip(w, 1)
      [] rule = 6 -> w

FirstRule(w) ==
    CHOOSE rule \in 1..6 :
        RuleMatches(rule, w) /\ \A earlier \in 1..(rule - 1) : ~RuleMatches(earlier, w)

\* C8: for every word, _pluralize_to_singular returns what the rule list
\* gives when the first matching rule, in priority order, is applied once:
\* the override table, 'ies', 'ches'/'shes'/'xes', 'ses' (with its 'eses'
\* case), 's' but not 'ss', unchanged.
C8_SingularIsFirstMatchingRule ==
    pc = "return" => out = Some(RuleResult(FirstRule(arg), arg))

C8_Witness ==
    /\ pc = "return"
    /\ arg = <<"e","s","e","s">>
    /\ FirstRule(arg) = 4
    /\ out = Some(<<"e","s">>)

\* C9: singularizing 'addresses' yields 'address' and 'courses' yields
\* 'course'.
C9_AddressesToAddress ==
    pc = "return" =>
        /\ arg = W_addresses => out = Some(W_address)
        /\ arg = W_courses => out = Some(W_course)

RelativeParts == SubSeq(arg, Len(data_lake_root) + 1, Len(arg))

\* C6: schema resolution returns None for every file fewer than two
\* directories deep below the root (directly in the root, or directly in a
\* namespace directory) and a schema name for every namespace/entityType/../file.
C6_NullIffShallow ==
    (pc = "return" /\ IsUnder(arg, data_lake_root)) =>
        /\ ~out.raised
        /\ Len(RelativeParts) < 3 => out.value = None
        /\ Len(RelativeParts) >= 3 => out.value # None

NamespacePrefix(namespace) ==
    IF namespace = <<"e","d","-","f","i">> THEN <<"e","d","F","i">> ELSE namespace

\* C7: for a file at least two segments below the root the schema name is
\* prefix + "_" + singular(second segment), the prefix being "edFi" for the
\* namespace "ed-fi" and the namespace itself otherwise; the name is that of
\* the path cut after its first two segments, whatever follows them.
C7_NameFromFirstTwoSegments ==
    (pc = "return" /\ IsUnder(arg, data_lake_root) /\ Len(RelativeParts) >= 2) =>
        /\ ~out.raised
        /\ out.value = Some(NamespacePrefix(RelativeParts[1]) \o <<"_">>
                            \o PluralizeToSingular(RelativeParts[2]))
        /\ out = GetSchemaNameFromPath(data_lake_root \o SubSeq(RelativeParts, 1, 2))

C7_Witness ==
    /\ pc = "return"
    /\ arg = data_lake_root \o <<W_edfi, W_students, W_courses, F_a>>
    /\ out.value = Some(N_edFi_student)

\* what the schema asks of a document, keyword by keyword: the type, the
\* required properties, the string length bounds, and the same of every
\* present property under its own schema, a $ref standing for the schema it
\* names
RECURSIVE Conforms(_, _, _)
Conforms(instance, schema, table) ==
    IF schema.ref # NoRef
    THEN schema.ref \in DOMAIN table /\ Conforms(instance, table[schema.ref], table)
    ELSE /\ schema.type \in {"any", instance.kind}
         /\ instance.kind = "object" =>
                \A p \in schema.required : p \in DOMAIN instance.fields
         /\ instance.kind = "string" =>
                /\ schema.minLength <= instance.len
                /\ schema.maxLength = -1 \/ instance.len <= schema.maxLength
         /\ instance.kind = "object" =>
                \A p \in DOMAIN instance.fields :
                    p \in DOMAIN schema.properties =>
                        Conforms(instance.fields[p], schema.properties[p], table)

\* the one file of the tree, when validate_file has returned a result for it
TheDocument == tree[1].content.doc

TheSchemaName == GetSchemaNameFromPath(data_lake_root \o tree[1].path).value.value

ValidatedAgainstSchema ==
    /\ ReturnedFromValidateFile
    /\ Len(tree) = 1
    /\ ret.input = PathStr(data_lake_root \o tree[1].path)
    /\ tree[1].content.kind = "json"
    /\ TheSchemaName \in DOMAIN schemas

\* C11: for a file whose path resolves to a schema of the table and whose
\* content parses as JSON, validate_file returns is_valid = TRUE with no error
\* exactly when the document meets the schema's required properties, types
\* and length bounds; otherwise the result is invalid with at least one error,
\* and a student without lastSurname gets the schema-validation error.
C11_ValidIffConforms ==
    ValidatedAgainstSchema =>
        LET r == ret.outcome.result
            conforms == Conforms(TheDocument, schemas[TheSchemaName], schemas)
        IN /\ (r.is_valid /\ r.errors = <<>>) <=> conforms
           /\ ~conforms => (~r.is_valid /\ Len(r.errors) >= 1)
           /\ (/\ TheSchemaName = N_edFi_student
               /\ TheDocument.kind = "object"
               /\ "lastSurname" \notin DOMAIN TheDocument.fields)
              => (~r.is_valid /\ r.errors = <<MsgValidationFailed>>)

C11_Witness ==
    /\ ValidatedAgainstSchema
    /\ TheDocument = DocStudentMissing
    /\ ~ret.outcome.result.is_valid
    /\ ret.outcome.result.errors = <<MsgValidationFailed>>

\* C12: a $ref to #/components/schemas/<name> is resolved against the whole
\* schema table and the schema it names is enforced on the nested value: an
\* academic week that is otherwise in order is valid exactly when its
\* schoolReference meets edFi_schoolReference, so a schoolReference without
\* schoolId is invalid and not every object passes for the referenced schema.
C12_RefResolvedAndEnforced ==
    (/\ ValidatedAgainstSchema
     /\ TheSchemaName = N_edFi_academicWeek
     /\ TheDocument.kind = "object"
     /\ DOMAIN TheDocument.fields = {"weekIdentifier", "schoolReference"}
     /\ TheDocument.fields.weekIdentifier = JString(6, FALSE)) =>
        LET r == ret.outcome.result
            nested == TheDocument.fields.schoolReference
        IN /\ r.is_valid <=> (/\ nested.kind = "object"
                              /\ "schoolId" \in DOMAIN nested.fields
                              /\ nested.fields.schoolId.kind = "integer")
           /\ (nested.kind = "object" /\ "schoolId" \notin DOMAIN nested.fields)
              => (~r.is_valid /\ r.errors = <<MsgValidationFailed>>)

C12_Witness ==
    /\ ValidatedAgainstSchema
    /\ TheDocument = DocWeekNoSchoolId
    /\ ~ret.outcome.result.is_valid

NoSchemasSection(source) ==
    /\ source.fetched
    /\ source.text.syntax # "neither"
    /\ source.text.value.kind = "mapping"
    /\ \/ source.text.value.components.kind \in {"absent", "null"}
       \/ source.text.value.components.schemas.kind = "absent"

\* C14: constructing a validator from any parsable OpenAPI document without a
\* components.schemas section does not raise and leaves an empty schema table;
\* every file two or more segments below the root is then reported invalid
\* with the error "Schema '<name>' not found in OpenAPI specification".
C14_NoSchemasLoadsEmptyTable ==
    (pc = "return" /\ NoSchemasSection(arg)) =>
        /\ ~out.raised
        /\ schemas = EmptyTable
        /\ \A f \in FileUniverse :
               Len(f.path) >= 3 =>
                   LET outcome == ValidateJsonFile(data_lake_root \o f.path) IN
                   /\ ~outcome.raised
                   /\ ~outcome.result.is_valid
                   /\ outcome.result.errors =
                          <<MsgSchemaNotFound(outcome.result.schema_name)>>

CliExited == out.stage = "exited"

RootExists == arg.data_lake_root = data_lake_root

SpecLoaded == ~LoadOpenapiSpec(arg.openapi_spec).raised

Printed(kind) == \E i \in 1..Len(out.stdout) : out.stdout[i].kind = kind

\* the file --file names
Target == JoinPath(arg.data_lake_root, arg.file.value)

\* a file comes out of validation as valid
ComesOutValid(file_path) ==
    LET outcome == ValidateJsonFile(file_path) IN
    ~outcome.raised /\ outcome.result.is_valid

\* the run gets through the root check and the spec load, is not interrupted,
\* and lists the schemas or finds its file or files all valid
CleanRun ==
    /\ ~out.sigint
    /\ RootExists
    /\ SpecLoaded
    /\ \/ arg.list_schemas
       \/ /\ arg.file # None
          /\ PathExists(Target)
          /\ ComesOutValid(Target)
       \/ /\ arg.file = None
          /\ \A i \in 1..Len(Discovered) : ComesOutValid(Discovered[i])

\* C15: once the arguments are parsed the process exits with 0 or 1 and
\* nothing else: 0 exactly when the run completes with no invalid file (an
\* empty data lake and --list-schemas included), 1 when a file is invalid or
\* on a missing root, a missing --file target, a failed spec load, another
\* uncaught exception or a user interrupt.
C15_ExitCode ==
    CliExited =>
        /\ out.exit_code \in {Some(0), Some(1)}
        /\ out.exit_code = Some(0) <=> CleanRun

C15_Witness ==
    /\ CliExited
    /\ out.exit_code = Some(0)
    /\ tree = <<>>
    /\ arg.file = None
    /\ ~arg.list_schemas
    /\ Printed("VALIDATION SUMMARY")

\* Ctrl-C arrives while a file of the run is being read and parsed
InterruptDuringRead ==
    LET table == LoadOpenapiSpec(arg.openapi_spec).result
        Read(f) ==
            /\ HasJsonExtension(f)
            /\ f.content = Interrupted
            /\ LET name == GetSchemaNameFromPath(data_lake_root \o f.path).value IN
               name # None /\ name.value \in DOMAIN table
    IN /\ RootExists
       /\ SpecLoaded
       /\ ~arg.list_schemas
       /\ \E i \in 1..Len(tree) :
             /\ Read(tree[i])
             /\ arg.file # None => Target = data_lake_root \o tree[i].path

\* C16: a user interrupt at any point of the run, the middle of one file's
\* validation included, is not swallowed by the per-file error handling: the
\* run stops, neither the result list nor the summary is printed, not even in
\* part, and the process exits with status 1.
C16_InterruptStopsRun ==
    (CliExited /\ (out.sigint \/ InterruptDuringRead)) =>
        /\ out.exit_code = Some(1)
        /\ out.stdout = <<Line("Validation interrupted by user")>>
        /\ ~Printed("VALIDATION RESULTS")
        /\ ~Printed("result")
        /\ ~Printed("VALIDATION SUMMARY")
        /\ pc = "idle"

C16_Witness ==
    /\ CliExited
    /\ ~out.sigint
    /\ arg.file = None
    /\ Len(tree) = 2
    /\ tree[1] = File(<<W_edfi, W_students, F_a>>, Json(DocStudentOk))
    /\ tree[2] = File(<<W_edfi, W_students, F_e>>, Interrupted)
    /\ schemas = FixtureTable
    /\ ret = [op |-> "validate_all", outcome |-> Raised("KeyboardInterrupt")]
    /\ out.exit_code = Some(1)

\* C17: with --list-schemas the process prints the schema names and exits
\* with 0 without validating any file, invalid files in the data lake or not,
\* and the names are printed only once the root check and the spec load have
\* succeeded.
C17_ListSchemas ==
    CliExited =>
        /\ (arg.list_schemas /\ RootExists /\ SpecLoaded /\ ~out.sigint) =>
              /\ out.stdout = <<[kind |-> "Available schemas",
                                 names |-> DOMAIN LoadOpenapiSpec(arg.openapi_spec).result]>>
              /\ out.exit_code = Some(0)
              /\ ret.op = "get_available_schemas"
        /\ Printed("Available schemas") =>
              /\ arg.list_schemas
              /\ RootExists
              /\ SpecLoaded
              /\ out.exit_code = Some(0)
              /\ ~Printed("result")
              /\ ~Printed("VALIDATION SUMMARY")

C17_Witness ==
    /\ CliExited
    /\ arg.list_schemas
    /\ Printed("Available schemas")
    /\ out.exit_code = Some(0)
    /\ schemas = FixtureTable
    /\ \E i \in 1..Len(tree) : tree[i].content = Json(DocStudentMissing)

\* C18: validate_all run again on the same validator, over the same tree and
\* the same schema table, returns what the run before it returned: the same
\* results in the same order (paths, schema names, validity, errors) and the
\* same summary.
C18_ValidateAllIdempotent ==
    [][(ret.op = "validate_all" /\ ret'.op = "validate_all") => ret' = ret]_vars

\* a second run has returned the three results of the first
C18_Witness ==
    /\ ReturnedFromValidateAll
    /\ pc = "loop"
    /\ Len(results) = Len(json_files)
    /\ Len(results) = 3
    /\ results = ret.outcome.result.results
    /\ \E i \in 1..3 : ~results[i].is_valid

\* the state of the file a result is about
StateOfFile(file_path) ==
    IF \E i \in 1..Len(tree) : data_lake_root \o tree[i].path = file_path
    THEN LET i == CHOOSE k \in 1..Len(tree) : data_lake_root \o tree[k].path = file_path
         IN tree[i].content.kind
    ELSE "missing"

\* C19: the steps of one file's validation run in the order resolve, lookup,
\* read and parse, validate, and stop at the first that fails: a resolved
\* name that is absent from the table gives the invalid result with that
\* name and the single "Schema '<name>' not found in OpenAPI specification"
\* error whatever the state of the file (missing, unreadable, malformed or
\* well-formed), and a file that cannot be read or parsed is reported as such
\* only when its schema is in the table.
C19_StepsInOrder ==
    \A r \in ProducedResults :
        LET file_path == ParsePath(r.file_path)
            resolved == GetSchemaNameFromPath(file_path)
        IN (~resolved.raised /\ resolved.value # None) =>
               LET name == resolved.value.value IN
               /\ name \notin DOMAIN schemas =>
                      r = [file_path |-> r.file_path, schema_name |-> name,
                           is_valid |-> FALSE, errors |-> <<MsgSchemaNotFound(name)>>]
               /\ (name \in DOMAIN schemas /\ StateOfFile(file_path) = "malformed") =>
                      r.errors = <<MsgInvalidJson>>
               /\ (name \in DOMAIN schemas /\ StateOfFile(file_path) = "unreadable") =>
                      r.errors = <<MsgUnexpected("PermissionError")>>
               /\ (name \in DOMAIN schemas /\ StateOfFile(file_path) = "missing") =>
                      r.errors \in {<<MsgUnexpected("FileNotFoundError")>>,
                                    <<MsgUnexpected("IsADirectoryError")>>}

\* one run over a well-formed, a malformed and an unreadable student file
\* with an empty table: three times the same error
C19_Witness ==
    /\ ReturnedFromValidateAll
    /\ schemas = EmptyTable
    /\ Len(ret.outcome.result.results) = 3
    /\ {StateOfFile(Discovered[i]) : i \in 1..3} = {"json", "malformed", "unreadable"}
    /\ \A i \in 1..3 :
          ret.outcome.result.results[i].errors = <<MsgSchemaNotFound(N_edFi_student)>>

\* C20: the schema table is set by the constructor and by nothing after it:
\* no validate_file, validate_all or get_available_schemas call, whatever its
\* outcome, changes the keys or the definitions of the table.
C20_SchemaTableUnchanged ==
    [][schemas' = schemas]_vars

\* calls of all three kinds have been made on a validator with a loaded table
C20_Witness ==
    /\ schemas = FixtureTable
    /\ ret.op = "validate_file"
    /\ ret.outcome.raised
    /\ pc = "loop"
    /\ Len(results) = 2

\* C21: the table of specific names never changes a result: for each of its
\* four keys (candidates, courses, academicWeeks, students) the general
\* suffix rules alone give the singular the table gives, so on every word
\* _pluralize_to_singular returns what the general rules alone return.
C21_OverridesAgreeWithRules ==
    /\ \A key \in DOMAIN Overrides : GeneralRules(key) = Overrides[key]
    /\ pc = "return" => out = Some(GeneralRules(arg))

C21_Witness ==
    /\ pc = "return"
    /\ arg = W_courses
    /\ out = Some(W_course)
    /\ GeneralRules(arg) = W_course

====
